---- MODULE Spec2Model ----
(***************************************************************************)
(* Model of MazeGenerator (turtle_maze.py): construction and validation,   *)
(* the iterative depth-first carve, the double breadth-first search for    *)
(* the diameter endpoints, and the endpoint policy of generate().          *)
(*                                                                         *)
(* complexity, difficulty and the value of random.random() are floats in   *)
(* the source; they are modelled in hundredths (0.75 is 75).               *)
(***************************************************************************)
EXTENDS Integers, Sequences, FiniteSets, TLC

\* ------------------------------------------------------------- bounds
\* Grids of at most MaxCells cells are explored.
MaxCells == 6
\* At most MaxGen calls of generate() on one instance are explored.
MaxGen == 2

\* ---------------------------------------------------------- constants
\* One unit of complexity/difficulty (1.0) in hundredths.
Scale == 100
\* rows < 2 or cols < 2 is rejected.
MinDim == 2
\* difficulty < 0.1: the fixed near pair.
NearThreshold == 10
\* difficulty < 0.5: opposite corners.
CornerThreshold == 50

\* The inputs the constructor is tried on.
DimValues == 1..MaxCells
ComplexityValues == {-1, 0, 75, 100, 101}
DifficultyValues == {-1, 0, 10, 50, 101}
\* Outcomes of random.random(), a float in [0, 1).
DrawValues == {0, 75, 99}

\* ---------------------------------------------------- directions
N == "N"
S == "S"
E == "E"
W == "W"
\* Iteration order of the DIR_VEC dictionary.
DirOrder == <<N, S, E, W>>
Dirs == {N, S, E, W}

\* Variant of OPPOSITE: the same direction on both sides of the wall.
OppositeSame(d) == d

OPPOSITE(d) == CASE d = N -> S [] d = S -> N [] d = E -> W [] d = W -> E

DIR_VEC(d) == CASE d = N -> <<-1, 0>> [] d = S -> <<1, 0>>
                [] d = E -> <<0, 1>> [] d = W -> <<0, -1>>

\* Python's None, for start and end.
None == <<>>

Cells(rs, cs) == (0..(rs - 1)) \X (0..(cs - 1))

AllWalls == [d \in Dirs |-> TRUE]

AttrNames == {"rows", "cols", "cell_size", "complexity", "difficulty",
              "grid", "start", "end"}

VARIABLES
    pc,          \* "new", "failed", "unbuilt", "carving", "built"
    attrs,       \* the attributes the instance has
    rows, cols, complexity, difficulty,
    grid,        \* cell -> direction -> wall present
    start, end,  \* None or a cell
    visited,     \* _carve_passage: the cells marked visited
    stack,       \* _carve_passage: the explicit stack
    branch,      \* which arm of the selection the last iteration took
    gen,         \* calls of generate() so far
    result       \* outcome of the last call: <<kind, value>>

vars == <<pc, attrs, rows, cols, complexity, difficulty, grid, start, end,
          visited, stack, branch, gen, result>>

NoResult == <<"none", <<>>>>
Raised(kind) == <<kind, <<>>>>
Returned(v) == <<"value", v>>

Init ==
    /\ pc = "new"
    /\ attrs = {}
    /\ rows = 0 /\ cols = 0 /\ complexity = 0 /\ difficulty = 0
    /\ grid = [cell \in {} |-> AllWalls]
    /\ start = None /\ end = None
    /\ visited = {}
    /\ stack = <<>>
    /\ branch = "none"
    /\ gen = 0
    /\ result = NoResult

\* ------------------------------------------------------- construction
\* Variant of Valid: the size is rejected only when both rows and cols are short.
ValidAnd(rs, cs, cx, df) ==
    /\ ~(rs < MinDim /\ cs < MinDim)
    /\ (0 <= cx /\ cx <= Scale)
    /\ (0 <= df /\ df <= Scale)

Valid(rs, cs, cx, df) ==
    /\ ~(rs < MinDim \/ cs < MinDim)
    /\ (0 <= cx /\ cx <= Scale)
    /\ (0 <= df /\ df <= Scale)

\* Variant of InitialEndpoint: the endpoints start at the origin cell.
InitialEndpointOrigin == <<0, 0>>

InitialEndpoint == None

Construct(rs, cs, cx, df) ==
    /\ pc = "new"
    /\ rs * cs <= MaxCells
    /\ IF Valid(rs, cs, cx, df)
       THEN /\ pc' = "unbuilt"
            /\ attrs' = AttrNames
            /\ rows' = rs /\ cols' = cs
            /\ complexity' = cx /\ difficulty' = df
            /\ grid' = [cell \in Cells(rs, cs) |-> AllWalls]
            /\ start' = InitialEndpoint /\ end' = InitialEndpoint
            /\ result' = NoResult
       ELSE /\ pc' = "failed"
            /\ result' = Raised("ValueError")
            /\ UNCHANGED <<attrs, rows, cols, complexity, difficulty, grid,
                           start, end>>
    /\ UNCHANGED <<visited, stack, branch, gen>>

\* ------------------------------------------------------------- carve
\* Variant of InBounds: the upper limits are taken inclusive.
InBoundsInclusive(r, c) == 0 <= r /\ r <= rows /\ 0 <= c /\ c <= cols

InBounds(r, c) == 0 <= r /\ r < rows /\ 0 <= c /\ c < cols

\* The filter of _unvisited_neighbours over DIR_VEC, in dictionary order.
RECURSIVE Scan(_, _, _, _)
Scan(r, c, vis, i) ==
    IF i > Len(DirOrder) THEN <<>>
    ELSE LET d == DirOrder[i]
             nr == r + DIR_VEC(d)[1]
             nc == c + DIR_VEC(d)[2]
             rest == Scan(r, c, vis, i + 1)
         IN IF InBounds(nr, nc) /\ <<nr, nc>> \notin vis
            THEN <<<<nr, nc, d, OPPOSITE(d)>>>> \o rest
            ELSE rest

ShufflePortion(neighbours) == (Len(neighbours) * complexity) \div Scale

\* All orders random.shuffle can leave a list in.
Shuffles(s) ==
    {[i \in 1..Len(s) |-> s[p[i]]] : p \in Permutations(1..Len(s))}

\* The lists _unvisited_neighbours can return. neighbours[:shuffle_portion] is
\* a new list: random.shuffle reorders that copy, which is dropped, and the
\* list returned is the filtered one whatever order the copy was put in.
UnvisitedNeighbours(r, c, vis) ==
    LET neighbours == Scan(r, c, vis, 1)
        shuffle_portion == ShufflePortion(neighbours)
    IN {neighbours : copy \in Shuffles(SubSeq(neighbours, 1, shuffle_portion))}

KnockDown(g, r, c, nr, nc, hereDir, thereDir) ==
    [g EXCEPT ![<<r, c>>][hereDir] = FALSE, ![<<nr, nc>>][thereDir] = FALSE]

Top(s) == s[Len(s)]

\* Variant of Pop: the stack is left as it is.
PopNothing(s) == s

Pop(s) == SubSeq(s, 1, Len(s) - 1)

CarveStep ==
    /\ pc = "carving"
    /\ stack # <<>>
    /\ LET r == Top(stack)[1]
           c == Top(stack)[2]
       IN \E neighbours \in UnvisitedNeighbours(r, c, visited) :
          IF neighbours # <<>>
          THEN \E draw \in DrawValues, pick \in 1..Len(neighbours) :
               LET chosen == IF draw < complexity
                             THEN neighbours[pick]
                             ELSE neighbours[1]
               IN /\ branch' = IF draw < complexity THEN "random" ELSE "first"
                  /\ grid' = KnockDown(grid, r, c, chosen[1], chosen[2],
                                       chosen[3], chosen[4])
                  /\ visited' = visited \cup {<<chosen[1], chosen[2]>>}
                  /\ stack' = Append(stack, <<chosen[1], chosen[2]>>)
          ELSE /\ stack' = Pop(stack)
               /\ branch' = "none"
               /\ UNCHANGED <<grid, visited>>
    /\ UNCHANGED <<pc, attrs, rows, cols, complexity, difficulty, start, end,
                   gen, result>>

\* ------------------------------------------------- the double BFS
\* A Python list index: -n..-1 count from the end, anything else outside
\* 0..n-1 raises IndexError.
IndexOk(i, n) == -n <= i /\ i < n
PyIndex(i, n) == IF i < 0 THEN i + n ELSE i
At(r, c) == <<PyIndex(r, rows), PyIndex(c, cols)>>

\* The for loop of bfs over DIR_VEC for the dequeued cell (r, c). st.indexed
\* collects the coordinates (nr, nc) that dist is indexed with.
RECURSIVE BfsDirs(_, _, _, _, _)
BfsDirs(g, st, r, c, i) ==
    IF i > Len(DirOrder) \/ st.raised THEN st
    ELSE LET d == DirOrder[i]
             nr == r + DIR_VEC(d)[1]
             nc == c + DIR_VEC(d)[2]
         IN IF g[At(r, c)][d]
            THEN BfsDirs(g, st, r, c, i + 1)
            ELSE LET seen == [st EXCEPT !.indexed = @ \cup {<<nr, nc>>}]
                 IN IF ~(IndexOk(nr, rows) /\ IndexOk(nc, cols))
                    THEN [seen EXCEPT !.raised = TRUE]
                    ELSE IF st.dist[At(nr, nc)] = -1
                         THEN BfsDirs(g,
                                  [seen EXCEPT
                                      !.dist[At(nr, nc)] = st.dist[At(r, c)] + 1,
                                      !.q = Append(@, <<nr, nc>>)],
                                  r, c, i + 1)
                         ELSE BfsDirs(g, seen, r, c, i + 1)

\* The while loop of bfs. max(farthest, (r, c), key=dist) keeps farthest
\* unless (r, c) is strictly farther.
RECURSIVE BfsLoop(_, _)
BfsLoop(g, st) ==
    IF st.q = <<>> \/ st.raised THEN st
    ELSE LET r == Head(st.q)[1]
             c == Head(st.q)[2]
             far == IF st.dist[At(r, c)]
                        > st.dist[At(st.farthest[1], st.farthest[2])]
                    THEN <<r, c>> ELSE st.farthest
         IN BfsLoop(g, BfsDirs(g, [st EXCEPT !.q = Tail(@), !.farthest = far],
                               r, c, 1))

Bfs(g, from) ==
    BfsLoop(g, [q |-> <<from>>,
                dist |-> [cell \in Cells(rows, cols) |->
                             IF cell = At(from[1], from[2]) THEN 0 ELSE -1],
                farthest |-> from,
                indexed |-> {},
                raised |-> FALSE])

\* Variant of LongestPathEndpoints: one pass, from (0,0) to its farthest cell.
SingleBfsEndpoints(g) ==
    LET a == Bfs(g, <<0, 0>>)
    IN [pair |-> <<<<0, 0>>, a.farthest>>,
        raised |-> a.raised,
        indexed |-> a.indexed]

LongestPathEndpoints(g) ==
    LET a == Bfs(g, <<0, 0>>)
        b == Bfs(g, a.farthest)
    IN [pair |-> <<a.farthest, b.farthest>>,
        raised |-> a.raised \/ b.raised,
        indexed |-> a.indexed \cup (IF a.raised THEN {} ELSE b.indexed)]

\* ---------------------------------------------------------- generate
\* Variant of CarveBegin: the start cell is pushed but not marked visited.
CarveBeginStartUnmarked(sr, sc) ==
    /\ visited' = {}
    /\ stack' = <<<<sr, sc>>>>
    /\ UNCHANGED grid

\* Variant of CarveBegin: every wall is put back before carving.
CarveBeginReset(sr, sc) ==
    /\ visited' = {<<sr, sc>>}
    /\ stack' = <<<<sr, sc>>>>
    /\ grid' = [cell \in Cells(rows, cols) |-> AllWalls]

\* _carve_passage up to its loop: a fresh visited table, the start cell
\* marked and pushed. The grid is taken as it is.
CarveBegin(sr, sc) ==
    /\ visited' = {<<sr, sc>>}
    /\ stack' = <<<<sr, sc>>>>
    /\ UNCHANGED grid

\* generate() up to the carve loop, from a random start cell.
GenerateBegin ==
    /\ gen < MaxGen
    /\ \E sr \in 0..(rows - 1), sc \in 0..(cols - 1) : CarveBegin(sr, sc)
    /\ pc' = "carving"
    /\ gen' = gen + 1
    /\ branch' = "none"
    /\ result' = NoResult
    /\ UNCHANGED <<attrs, rows, cols, complexity, difficulty, start, end>>

Generate ==
    /\ pc \in {"unbuilt", "built"}
    /\ GenerateBegin

\* Variant of Endpoints: the two thresholds are taken inclusive.
EndpointsInclusive ==
    IF difficulty <= NearThreshold
    THEN [pair |-> <<<<0, 0>>, <<1, 1>>>>, raised |-> FALSE]
    ELSE IF difficulty <= CornerThreshold
    THEN [pair |-> <<<<0, 0>>, <<rows - 1, cols - 1>>>>, raised |-> FALSE]
    ELSE LET lp == LongestPathEndpoints(grid)
         IN [pair |-> lp.pair, raised |-> lp.raised]

\* The endpoint policy of generate().
Endpoints ==
    IF difficulty < NearThreshold
    THEN [pair |-> <<<<0, 0>>, <<1, 1>>>>, raised |-> FALSE]
    ELSE IF difficulty < CornerThreshold
    THEN [pair |-> <<<<0, 0>>, <<rows - 1, cols - 1>>>>, raised |-> FALSE]
    ELSE LET lp == LongestPathEndpoints(grid)
         IN [pair |-> lp.pair, raised |-> lp.raised]

\* generate() after the carve loop has emptied the stack.
GenerateEnd ==
    /\ pc = "carving"
    /\ stack = <<>>
    /\ LET ep == Endpoints
       IN IF ep.raised
          THEN /\ result' = Raised("IndexError")
               /\ UNCHANGED <<start, end>>
          ELSE /\ start' = ep.pair[1]
               /\ end' = ep.pair[2]
               /\ result' = NoResult
    /\ pc' = "built"
    /\ UNCHANGED <<attrs, rows, cols, complexity, difficulty, grid, visited,
                   stack, branch, gen>>

\* draw(): generate() first when an endpoint is None; the drawing itself
\* reads the grid and the endpoints and changes nothing.
Draw ==
    /\ pc \in {"unbuilt", "built"}
    /\ IF start = None \/ end = None
       THEN GenerateBegin
       ELSE UNCHANGED vars

\* A caller reading the public attributes start and end.
QueryEndpoints ==
    /\ pc \in {"unbuilt", "built"}
    /\ result' = Returned(<<start, end>>)
    /\ UNCHANGED <<pc, attrs, rows, cols, complexity, difficulty, grid, start,
                   end, visited, stack, branch, gen>>

Next == \/ \E rs \in DimValues, cs \in DimValues,
              cx \in ComplexityValues, df \in DifficultyValues :
              Construct(rs, cs, cx, df)
        \/ Generate
        \/ CarveStep
        \/ GenerateEnd
        \/ Draw
        \/ QueryEndpoints

Spec == Init /\ [][Next]_vars

\* The carve loop is straight-line code of one thread: once entered, its
\* iterations keep running while the stack is not empty.
SpecLive == Spec /\ WF_vars(CarveStep)

\* ------------------------------------------- the open-wall graph
AllCells == Cells(rows, cols)

\* a and b are adjacent cells and both sides of their shared wall are open.
Linked(g, a, b) ==
    \/ b = <<a[1] + 1, a[2]>> /\ ~g[a]["S"] /\ ~g[b]["N"]
    \/ b = <<a[1] - 1, a[2]>> /\ ~g[a]["N"] /\ ~g[b]["S"]
    \/ b = <<a[1], a[2] + 1>> /\ ~g[a]["E"] /\ ~g[b]["W"]
    \/ b = <<a[1], a[2] - 1>> /\ ~g[a]["W"] /\ ~g[b]["E"]

\* One edge per knocked-down wall pair, counted at its upper or left cell.
EdgeCount(g) ==
    Cardinality({a \in AllCells :
                    a[1] + 1 < rows /\ Linked(g, a, <<a[1] + 1, a[2]>>)})
    + Cardinality({a \in AllCells :
                    a[2] + 1 < cols /\ Linked(g, a, <<a[1], a[2] + 1>>)})

\* The cells one open wall away from a cell of near, and near itself.
Grow(g, near) ==
    near \cup {b \in AllCells : \E x \in near : Linked(g, x, b)}

RECURSIVE Closure(_, _)
Closure(g, near) ==
    LET next == Grow(g, near)
    IN IF next = near THEN near ELSE Closure(g, next)

Connected(g) == Closure(g, {<<0, 0>>}) = AllCells

\* Length of the shortest open-wall path from the set near (k walls from
\* its origin) to b, -1 when there is none.
RECURSIVE StepsTo(_, _, _, _)
StepsTo(g, near, b, k) ==
    IF b \in near THEN k
    ELSE LET next == Grow(g, near)
         IN IF next = near THEN -1 ELSE StepsTo(g, next, b, k + 1)

Dist(g, a, b) == StepsTo(g, {a}, b, 0)

\* The largest distance from a to a cell it reaches.
RECURSIVE Rounds(_, _, _)
Rounds(g, near, k) ==
    LET next == Grow(g, near)
    IN IF next = near THEN k ELSE Rounds(g, next, k + 1)

Eccentricity(g, a) == Rounds(g, {a}, 0)

CarveFinished == pc = "carving" /\ stack = <<>>

\* --------------------------------------------------------------- C1
\* C1: after the first generate() on a fresh instance, and already when its
\* carve loop has ended, the open-wall graph is connected and has exactly
\* rows*cols - 1 edges: a spanning tree of the grid.
C1_SpanningTree ==
    (gen = 1 /\ (CarveFinished \/ pc = "built")) =>
        /\ Connected(grid)
        /\ EdgeCount(grid) = rows * cols - 1

C1_Witness ==
    /\ pc = "built" /\ gen = 1
    /\ rows = 2 /\ cols = 3 /\ complexity = 75
    /\ EdgeCount(grid) = 5

\* --------------------------------------------------------------- C2
\* C2: in every state, for adjacent in-bounds cells A and B, A's wall toward
\* B is open iff B's wall toward A is open.
C2_WallSymmetry ==
    \A a \in AllCells :
        /\ (a[1] + 1 < rows => grid[a]["S"] = grid[<<a[1] + 1, a[2]>>]["N"])
        /\ (a[2] + 1 < cols => grid[a]["E"] = grid[<<a[1], a[2] + 1>>]["W"])

C2_Witness ==
    /\ pc = "carving" /\ Len(stack) = 3
    /\ ~grid[<<0, 0>>]["E"] /\ ~grid[<<0, 1>>]["W"]
    /\ ~grid[<<0, 1>>]["S"] /\ ~grid[<<1, 1>>]["N"]

\* --------------------------------------------------------------- C3
BadInput(rs, cs, cx, df) ==
    rs < 2 \/ cs < 2 \/ cx < 0 \/ cx > 100 \/ df < 0 \/ df > 100

\* C3: construction raises the validation error and creates no attribute (no
\* grid, no endpoints) when rows < 2, cols < 2, or complexity or difficulty
\* is outside [0, 1]; on every other input it succeeds with all four walls of
\* each of the rows*cols cells present and start = end = None.
C3_ConstructionValidation ==
    [][\A rs \in DimValues, cs \in DimValues,
          cx \in ComplexityValues, df \in DifficultyValues :
          Construct(rs, cs, cx, df) =>
            IF BadInput(rs, cs, cx, df)
            THEN /\ pc' = "failed"
                 /\ result' = <<"ValueError", <<>>>>
                 /\ attrs' = {}
                 /\ DOMAIN grid' = {}
            ELSE /\ pc' = "unbuilt"
                 /\ {"grid", "start", "end"} \subseteq attrs'
                 /\ Cardinality(DOMAIN grid') = rs * cs
                 /\ \A cell \in (0..(rs - 1)) \X (0..(cs - 1)) :
                       \A d \in {"N", "S", "E", "W"} : grid'[cell][d]
                 /\ start' = <<>> /\ end' = <<>>]_vars

C3_Witness == pc = "failed" /\ attrs = {} /\ result[1] = "ValueError"

\* --------------------------------------------------------------- C4
\* C4: whenever generate() has returned, whatever the carve start and the
\* random choices were: difficulty < 0.1 gives start (0,0) and end (1,1);
\* 0.1 <= difficulty < 0.5 gives (0,0) and (rows-1, cols-1); difficulty >= 0.5
\* gives the pair of the double BFS on the carved grid (start a farthest cell
\* from (0,0), end a farthest cell from start). Both endpoints are in bounds.
C4_EndpointPolicy ==
    pc = "built" =>
        /\ start \in AllCells /\ end \in AllCells
        /\ difficulty < 10 => (start = <<0, 0>> /\ end = <<1, 1>>)
        /\ (10 <= difficulty /\ difficulty < 50) =>
               (start = <<0, 0>> /\ end = <<rows - 1, cols - 1>>)
        /\ difficulty >= 50 =>
               /\ <<start, end>> = LongestPathEndpoints(grid).pair
               /\ Dist(grid, <<0, 0>>, start) = Eccentricity(grid, <<0, 0>>)
               /\ Dist(grid, start, end) = Eccentricity(grid, start)

C4_Witness ==
    /\ pc = "built" /\ difficulty = 10 /\ rows = 2 /\ cols = 3
    /\ end = <<1, 2>>

\* --------------------------------------------------------------- C5
Diameter(g) ==
    CHOOSE k \in 0..Cardinality(AllCells) :
        /\ \E a \in AllCells : Eccentricity(g, a) = k
        /\ \A a \in AllCells : Eccentricity(g, a) <= k

\* C5: on every grid the first carve produces, the pair (A, B) of the double
\* BFS is a diameter pair: dist(A, B) >= dist(X, Y) for all cells X, Y.
C5_DiameterPair ==
    (gen = 1 /\ CarveFinished) =>
        LET lp == LongestPathEndpoints(grid)
            ab == Dist(grid, lp.pair[1], lp.pair[2])
        IN /\ ~lp.raised
           /\ \A x \in AllCells, y \in AllCells : ab >= Dist(grid, x, y)

\* A tree in which (0,0) is not an end of any longest path.
C5_Witness ==
    /\ gen = 1 /\ CarveFinished
    /\ Eccentricity(grid, <<0, 0>>) < Diameter(grid)
    /\ Dist(grid, LongestPathEndpoints(grid).pair[1],
            LongestPathEndpoints(grid).pair[2]) = Diameter(grid)

\* --------------------------------------------------------------- C6
\* C6 as claimed: a read of start/end on a constructed instance on which
\* generate() has not run raises a precondition error.
C6_QueryBeforeGenerateRaises ==
    (pc = "unbuilt" /\ result[1] # "none") =>
        result = <<"PreconditionError", <<>>>>

\* C6 as amended: a read of start/end on a constructed instance on which
\* generate() has not run raises nothing and returns the unset value None for
\* both endpoints.
C6_QueryBeforeGenerateReturnsNone ==
    (pc = "unbuilt" /\ result[1] # "none") =>
        result = <<"value", <<<<>>, <<>>>>>>

C6_Witness ==
    pc = "unbuilt" /\ gen = 0 /\ result = <<"value", <<<<>>, <<>>>>>>

\* --------------------------------------------------------------- C7
\* The neighbours of the top of the stack that are in bounds and unvisited.
FreeNeighbours ==
    {b \in AllCells \ visited :
        \/ b = <<Top(stack)[1] - 1, Top(stack)[2]>>
        \/ b = <<Top(stack)[1] + 1, Top(stack)[2]>>
        \/ b = <<Top(stack)[1], Top(stack)[2] + 1>>
        \/ b = <<Top(stack)[1], Top(stack)[2] - 1>>}

\* C7: the carve loop terminates (the stack becomes empty) with every cell
\* visited. It starts with the start cell alone marked and pushed; during it
\* the visited set never shrinks, an iteration pushes one cell, unvisited
\* until then and marked by the push, when the top cell has an unvisited
\* neighbour, and otherwise shrinks the stack by one. So no cell is pushed
\* twice: the cells on the stack are distinct and visited.
C7_CarveTerminates ==
    /\ (pc = "carving") ~> CarveFinished
    /\ [](CarveFinished => visited = AllCells)
    /\ [](pc = "carving" =>
            /\ \A i \in 1..Len(stack) : stack[i] \in visited
            /\ \A i \in 1..Len(stack), j \in 1..Len(stack) :
                  stack[i] = stack[j] => i = j)
    /\ [][(pc # "carving" /\ pc' = "carving") =>
            /\ Len(stack') = 1
            /\ visited' = {stack'[1]}]_vars
    /\ [][(pc = "carving" /\ pc' = "carving") =>
            /\ visited \subseteq visited'
            /\ IF FreeNeighbours # {}
               THEN \E b \in FreeNeighbours :
                       /\ stack' = Append(stack, b)
                       /\ visited' = visited \cup {b}
               ELSE /\ Len(stack') = Len(stack) - 1
                    /\ stack' = SubSeq(stack, 1, Len(stack) - 1)
                    /\ visited' = visited]_vars

C7_Witness == CarveFinished /\ visited = AllCells /\ rows * cols = 6

\* --------------------------------------------------------------- C8
\* The unvisited in-bounds neighbours of the top of the stack in N, S, E, W
\* order.
OrderedFree ==
    SelectSeq(<<<<Top(stack)[1] - 1, Top(stack)[2]>>,
                <<Top(stack)[1] + 1, Top(stack)[2]>>,
                <<Top(stack)[1], Top(stack)[2] + 1>>,
                <<Top(stack)[1], Top(stack)[2] - 1>>>>,
              LAMBDA b : b \in AllCells \ visited)

\* C8: the leading floor(count * complexity) entries of the neighbour list
\* are shuffled, so when the draw can take the deterministic branch and that
\* portion holds two entries or more, the deterministic branch can choose any
\* of them, not only the first unvisited neighbour in N, S, E, W order.
C8_DeterministicBranchSeesShuffle ==
    (pc = "carving" /\ stack # <<>> /\ complexity < 100) =>
        \A k \in 1..((Len(OrderedFree) * complexity) \div 100) :
            k >= 2 =>
                ENABLED (/\ CarveStep
                         /\ branch' = "first"
                         /\ Top(stack') = OrderedFree[k])

\* --------------------------------------------------------------- C9
\* C9: generate() is open to a call on a Built instance, and that call carves
\* over the walls already open, without restoring any: from the second carve
\* on the graph stays connected with at least rows*cols - 1 edges (more than
\* that, a cycle, in the witness).
C9_RegenerationKeepsOpenWalls ==
    /\ (pc = "built" /\ gen < MaxGen) => ENABLED Generate
    /\ (gen >= 2 /\ pc \in {"carving", "built"}) =>
           EdgeCount(grid) >= rows * cols - 1
    /\ (gen >= 2 /\ pc = "built") => Connected(grid)

C9_Witness ==
    /\ pc = "built" /\ gen = 2
    /\ EdgeCount(grid) > rows * cols - 1

\* -------------------------------------------------------------- C10
\* C10: no wall on the outer border is ever opened, every cell the carve
\* marks or pushes is in bounds, and every coordinate the BFS indexes dist
\* with after its open-wall test is in bounds.
C10_BoundaryContainment ==
    /\ \A a \in AllCells :
          /\ a[1] = 0 => grid[a]["N"]
          /\ a[1] = rows - 1 => grid[a]["S"]
          /\ a[2] = 0 => grid[a]["W"]
          /\ a[2] = cols - 1 => grid[a]["E"]
    /\ visited \subseteq AllCells
    /\ \A i \in 1..Len(stack) : stack[i] \in AllCells
    /\ (CarveFinished \/ pc = "built") =>
           /\ ~LongestPathEndpoints(grid).raised
           /\ LongestPathEndpoints(grid).indexed \subseteq AllCells

C10_Witness ==
    /\ CarveFinished /\ gen = 1 /\ rows = 3
    /\ LongestPathEndpoints(grid).indexed = AllCells
====
